---- MODULE Spec2Model ----
(***************************************************************************)
(* HtmlToMarkdownConverter (scripts/convert_html_to_markdown.py).          *)
(*                                                                         *)
(* Text is a sequence of tokens.  A token is a record                      *)
(*   [k, n, at, e]                                                         *)
(*   k  = "open"  : an opening tag <n at...>, at = sequence of attributes  *)
(*        "close" : a closing tag </n>                                     *)
(*        "text"  : a run of characters n holding no whitespace, no '<',   *)
(*                  no '>' and no '&' entity                               *)
(*        "ws"    : one whitespace character, n = " " or "\n"              *)
(*   e  = how many times the token's text is entity-encoded: a tag with    *)
(*        e = 1 is the text &lt;n&gt;, which no tag pattern matches and    *)
(*        which html.unescape turns into the tag itself.                   *)
(* An attribute is [an, av]: name and value, each a sequence of pieces     *)
(* (data-src is <<"data-", "src">>, class="line highlighted" has the value *)
(* <<"line", " ", "highlighted">>).  A fence marker is three BT tokens,    *)
(* one per backquote.  Regular expressions are translated pattern by       *)
(* pattern to leftmost, non-overlapping scans over the token sequence.     *)
(***************************************************************************)
EXTENDS Integers, Sequences, FiniteSets, TLC

VARIABLES html_content, filename, current_file, content, pc, result, calls, prev,
          input_dir, html_files, index, output_dir, log

\* What convert_directory works on: the names in the input directory, the list
\* html_files, the position of its loop in that list, the files of the output
\* directory and, per file it has dealt with, what it reported and opened.
batch == <<input_dir, html_files, index, output_dir, log>>

vars == <<html_content, filename, current_file, content, pc, result, calls, prev,
          input_dir, html_files, index, output_dir, log>>

-----------------------------------------------------------------------------
(* Tokens *)

Txt(s) == [k |-> "text", n |-> s, at |-> <<>>, e |-> 0]
SP == [k |-> "ws", n |-> " ", at |-> <<>>, e |-> 0]
NL == [k |-> "ws", n |-> "\n", at |-> <<>>, e |-> 0]
Open(n, at) == [k |-> "open", n |-> n, at |-> at, e |-> 0]
Close(n) == [k |-> "close", n |-> n, at |-> <<>>, e |-> 0]
Attr(an, av) == [an |-> an, av |-> av]
Esc(t) == [t EXCEPT !.e = @ + 1]
\* One backquote character (the lexer takes no backquote inside a string).
BT == Txt("bq")
ZWSP == Txt("ZWSP")

\* A piece of an attribute value, as text of the document.
Piece(p) == IF p \in {" ", "\n"} THEN [k |-> "ws", n |-> p, at |-> <<>>, e |-> 0] ELSE Txt(p)
Pieces(v) == [i \in DOMAIN v |-> Piece(v[i])]
\* A sequence of characters (a filename, a title) as text of the document.
Chars(w) == [i \in DOMAIN w |-> Piece(w[i])]

\* The characters '<' ... '>' of the text: what <[^>]+> matches.
IsTag(t) == t.e = 0 /\ t.k \in {"open", "close"}
IsWs(t) == t.e = 0 /\ t.k = "ws"
IsNL(t) == t.e = 0 /\ t.k = "ws" /\ t.n = "\n"

\* <p matches the start of <p ...> and of <pre ...>, <th that of <thead>.
HasPrefix(n, p) == n = p \/ (p = "p" /\ n = "pre") \/ (p = "th" /\ n = "thead")
\* <name[^>]*>
IsOpen(t, name) == t.e = 0 /\ t.k = "open" /\ HasPrefix(t.n, name)
\* <name> with no attribute
IsBare(t, name) == t.e = 0 /\ t.k = "open" /\ t.n = name /\ t.at = <<>>
\* </name>
IsClose(t, name) == t.e = 0 /\ t.k = "close" /\ t.n = name

Last(q) == q[Len(q)]
\* name="value" occurring in the tag: the attribute name may be longer on the left.
HasAttrValue(t, name, value) ==
  \E a \in DOMAIN t.at : Last(t.at[a].an) = name /\ t.at[a].av = value
\* <tag class="first... : the class attribute directly follows the tag name.
FirstClass(t) ==
  IF t.at # <<>> /\ t.at[1].an = <<"class">> THEN t.at[1].av ELSE <<>>

-----------------------------------------------------------------------------
(* Sequences and the re / str primitives *)

Min(S) == CHOOSE a \in S : \A b \in S : a <= b
\* The first index of S at or after from; 0 when there is none.
First(S, from) ==
  LET T == {i \in S : i >= from} IN IF T = {} THEN 0 ELSE Min(T)

Flatten(ss) ==
  LET f[i \in 0..Len(ss)] == IF i = 0 THEN <<>> ELSE f[i - 1] \o ss[i] IN f[Len(ss)]
\* sep.join(ss)
Join(ss, sep) ==
  LET f[i \in 0..Len(ss)] ==
        IF i = 0 THEN <<>>
        ELSE IF i = 1 THEN ss[1] ELSE f[i - 1] \o sep \o ss[i]
  IN f[Len(ss)]

None == <<>>
AttributeError == <<[k |-> "exc", n |-> "AttributeError", at |-> <<>>, e |-> 0]>>
\* match.group(1) of a pattern <open>(.*?)</close>; None has no group.
group1(s, m) == IF m = None THEN AttributeError ELSE SubSeq(s, m[1] + 1, m[2] - 1)

\* re.finditer: end[i] is the last index of the match starting at i, 0 when
\* none starts there.  Leftmost, non-overlapping.
FindIter(n, end) ==
  LET f[from \in 1..(n + 1)] ==
        LET st == {i \in from..n : end[i] # 0} IN
        IF st = {} THEN <<>>
        ELSE LET i == Min(st) IN <<<<i, end[i]>>>> \o f[end[i] + 1]
  IN f[1]
\* re.search
Search(n, end) ==
  LET st == {i \in 1..n : end[i] # 0} IN
  IF st = {} THEN None ELSE <<Min(st), end[Min(st)]>>
\* re.sub: the matches ms of s replaced by repl[1], repl[2], ...
Sub(s, ms, repl) ==
  LET f[k \in 0..Len(ms)] ==
        IF k = 0 THEN <<>>
        ELSE f[k - 1]
             \o SubSeq(s, IF k = 1 THEN 1 ELSE ms[k - 1][2] + 1, ms[k][1] - 1)
             \o repl[k]
  IN f[Len(ms)] \o SubSeq(s, IF ms = <<>> THEN 1 ELSE ms[Len(ms)][2] + 1, Len(s))

\* The pattern <name[^>]*>(.*?)</name> (DOTALL).
PairEnd(s, name) ==
  [i \in DOMAIN s |->
     IF IsOpen(s[i], name)
     THEN First({j \in DOMAIN s : IsClose(s[j], name)}, i + 1) ELSE 0]
\* The pattern <name>(.*?)</name>: the opening tag has no attribute.
BarePairEnd(s, name) ==
  [i \in DOMAIN s |->
     IF IsBare(s[i], name)
     THEN First({j \in DOMAIN s : IsClose(s[j], name)}, i + 1) ELSE 0]
Inner(s, m) == SubSeq(s, m[1] + 1, m[2] - 1)
Whole(s, m) == SubSeq(s, m[1], m[2])

\* re.sub(r'<[^>]+>', '', s)
strip_tags(s) == SelectSeq(s, LAMBDA t : ~IsTag(t))
\* html.unescape
unescape(s) == [i \in DOMAIN s |-> IF s[i].e > 0 THEN [s[i] EXCEPT !.e = @ - 1] ELSE s[i]]
\* str.strip()
strip(s) ==
  LET keep == {i \in DOMAIN s : ~IsWs(s[i])} IN
  IF keep = {} THEN <<>>
  ELSE SubSeq(s, Min(keep), CHOOSE i \in keep : \A j \in keep : j <= i)

-----------------------------------------------------------------------------
(* _extract_main_content *)

\* The main region taken without the test that it was found.
_extract_main_content_unguarded(h) ==
  group1(h, Search(Len(h), PairEnd(h, "main")))

\* Nothing instead of the whole input when neither region is found.
_extract_main_content_or_nothing(h) ==
  LET main_match == Search(Len(h), PairEnd(h, "main"))
      body_match == Search(Len(h), PairEnd(h, "body"))
  IN IF main_match # None THEN group1(h, main_match)
     ELSE IF body_match # None THEN group1(h, body_match)
     ELSE <<>>

_extract_main_content(h) ==
  LET main_match == Search(Len(h), PairEnd(h, "main"))
      body_match == Search(Len(h), PairEnd(h, "body"))
  IN IF main_match # None THEN group1(h, main_match)
     ELSE IF body_match # None THEN group1(h, body_match)
     ELSE h

-----------------------------------------------------------------------------
(* _remove_hidden_elements *)

_remove_hidden_elements(c) ==
  LET hidden(s) ==
        [i \in DOMAIN s |->
           IF IsOpen(s[i], "div") /\ HasAttrValue(s[i], "hidden", <<"true">>)
           THEN First({j \in DOMAIN s : IsClose(s[j], "div")}, i + 1) ELSE 0]
      copy(s) ==
        [i \in DOMAIN s |->
           IF IsOpen(s[i], "button") /\ HasAttrValue(s[i], "class", <<"copy">>)
           THEN First({j \in DOMAIN s : IsClose(s[j], "button")}, i + 1) ELSE 0]
      anchor(s) ==
        [i \in DOMAIN s |->
           IF IsOpen(s[i], "a") /\ HasAttrValue(s[i], "class", <<"header-anchor">>)
           THEN First({j \in DOMAIN s : IsClose(s[j], "a")}, i + 1) ELSE 0]
      del(s, ms) == Sub(s, ms, [k \in DOMAIN ms |-> <<>>])
      c1 == del(c, FindIter(Len(c), hidden(c)))
      c2 == del(c1, FindIter(Len(c1), copy(c1)))
  IN del(c2, FindIter(Len(c2), anchor(c2)))

-----------------------------------------------------------------------------
(* _convert_code_blocks *)

FENCE == <<BT, BT, BT>>

\* The index of the first token after k that is not whitespace (\s*), 0 at the end.
SkipWs(s, k) == First({m \in DOMAIN s : ~IsWs(s[m])}, k + 1)

\* The single left-to-right scan: the text between the tags.
extract_text_from_spans(line) == SelectSeq(line, LAMBDA t : ~IsTag(t))

\* <span class="line
IsLineOpen(t) ==
  t.e = 0 /\ t.k = "open" /\ t.n = "span" /\ FirstClass(t) # <<>> /\ FirstClass(t)[1] = "line"

\* class="language-([^"\s]+) : the language named by a tag of the block, <<>> when none.
LanguageClass(block) ==
  LET named(t) == {a \in DOMAIN t.at :
                     /\ Last(t.at[a].an) = "class"
                     /\ Len(t.at[a].av) >= 2
                     /\ t.at[a].av[1] = "language-"
                     /\ t.at[a].av[2] \notin {" ", "\n"}}
      tags == {i \in DOMAIN block : block[i].e = 0 /\ block[i].k = "open" /\ named(block[i]) # {}}
  IN IF tags = {} THEN <<>>
     ELSE LET t == block[Min(tags)] IN <<Txt(t.at[Min(named(t))].av[2])>>

\* <span class="lang">([^<]+)</span>
LanguageSpan(block) ==
  LET isLang(t) == t = Open("span", <<Attr(<<"class">>, <<"lang">>)>>)
      end == [i \in DOMAIN block |->
                IF isLang(block[i])
                THEN LET j == First({m \in DOMAIN block : IsTag(block[m])}, i + 1) IN
                     IF j > i + 1 /\ IsClose(block[j], "span") THEN j ELSE 0
                ELSE 0]
      span_lang == Search(Len(block), end)
  IN IF span_lang # None THEN Inner(block, span_lang) ELSE <<>>

\* <span class="line[^"]*"[^>]*>(.*?)</span>(?=\s*<span class="line|$)
LineEnd(c) ==
  LET ahead(j) ==
        \/ j = Len(c)
        \/ j = Len(c) - 1 /\ IsNL(c[Len(c)])
        \/ SkipWs(c, j) # 0 /\ IsLineOpen(c[SkipWs(c, j)])
  IN [i \in DOMAIN c |->
        IF IsLineOpen(c[i])
        THEN First({j \in DOMAIN c : IsClose(c[j], "span") /\ ahead(j)}, i + 1) ELSE 0]

\* re.split(r'<span class="line[^"]*"[^>]*>', code_content)
SplitLines(c) ==
  LET cut == {i \in DOMAIN c : IsLineOpen(c[i])}
      f[from \in 1..(Len(c) + 1)] ==
        LET i == First(cut, from) IN
        IF i = 0 THEN <<SubSeq(c, from, Len(c))>>
        ELSE <<SubSeq(c, from, i - 1)>> \o f[i + 1]
  IN f[1]

extract_code_from_pre(full_block) ==
  LET lang_match == LanguageClass(full_block)
      language == IF lang_match # <<>> THEN lang_match ELSE LanguageSpan(full_block)
      code_match == Search(Len(full_block), PairEnd(full_block, "code"))
      code_content == group1(full_block, code_match)
      ms == FindIter(Len(code_content), LineEnd(code_content))
      lines == [k \in DOMAIN ms |-> Inner(code_content, ms[k])]
      line_parts == SplitLines(code_content)
      cut(part) ==
        LET closes == {i \in DOMAIN part : IsClose(part[i], "span")}
            end_idx == IF closes = {} THEN 0 ELSE CHOOSE i \in closes : \A j \in closes : j <= i
        IN IF end_idx > 1 THEN SubSeq(part, 1, end_idx - 1) ELSE part
      code_text ==
        IF lines # <<>>
        THEN Join([k \in DOMAIN lines |-> unescape(extract_text_from_spans(lines[k]))], <<NL>>)
        ELSE IF Len(line_parts) > 1
        THEN Join([k \in 1..(Len(line_parts) - 1) |->
                     unescape(extract_text_from_spans(cut(line_parts[k + 1])))], <<NL>>)
        ELSE unescape(strip_tags(code_content))
  IN IF code_match = None THEN full_block
     ELSE <<NL>> \o FENCE \o language \o <<NL>> \o strip(code_text) \o <<NL>> \o FENCE \o <<NL>>

\* <div class="language-[^"]*[^>]*>.*?<pre[^>]*>.*?</pre>\s*</div>
ContainerEnd(s) ==
  LET closes == {k \in DOMAIN s :
                   IsClose(s[k], "pre") /\ SkipWs(s, k) # 0 /\ IsClose(s[SkipWs(s, k)], "div")}
  IN [i \in DOMAIN s |->
        IF /\ s[i].e = 0 /\ s[i].k = "open" /\ s[i].n = "div"
           /\ FirstClass(s[i]) # <<>> /\ FirstClass(s[i])[1] = "language-"
        THEN LET j == First({m \in DOMAIN s : IsOpen(s[m], "pre")}, i + 1)
                 k == IF j = 0 THEN 0 ELSE First(closes, j + 1)
             IN IF k = 0 THEN 0 ELSE SkipWs(s, k)
        ELSE 0]

\* <pre[^>]*>\s*<code[^>]*>(.*?)</code>\s*</pre>
PreCodeEnd(s) ==
  LET closes == {k \in DOMAIN s :
                   IsClose(s[k], "code") /\ SkipWs(s, k) # 0 /\ IsClose(s[SkipWs(s, k)], "pre")}
  IN [i \in DOMAIN s |->
        IF IsOpen(s[i], "pre") /\ SkipWs(s, i) # 0 /\ IsOpen(s[SkipWs(s, i)], "code")
        THEN LET k == First(closes, SkipWs(s, i) + 1) IN IF k = 0 THEN 0 ELSE SkipWs(s, k)
        ELSE 0]

\* The lambda of the standalone pre/code rule; m is the whole match.
convert_pre_code(m) ==
  LET c == SkipWs(m, 1)
      closes == {k \in DOMAIN m : IsClose(m[k], "code")}
      k == CHOOSE x \in closes : \A y \in closes : y <= x
  IN <<NL>> \o FENCE \o <<NL>> \o unescape(strip_tags(SubSeq(m, c + 1, k - 1)))
     \o <<NL>> \o FENCE \o <<NL>>

_convert_code_blocks(c) ==
  LET ms1 == FindIter(Len(c), ContainerEnd(c))
      c1 == Sub(c, ms1, [k \in DOMAIN ms1 |-> extract_code_from_pre(Whole(c, ms1[k]))])
      ms2 == FindIter(Len(c1), PreCodeEnd(c1))
  IN Sub(c1, ms2, [k \in DOMAIN ms2 |-> convert_pre_code(Whole(c1, ms2[k]))])

-----------------------------------------------------------------------------
(* _convert_inline_code *)

convert_code(m) == <<BT>> \o unescape(strip_tags(SubSeq(m, 2, Len(m) - 1))) \o <<BT>>

_convert_inline_code(c) ==
  LET ms == FindIter(Len(c), PairEnd(c, "code"))
  IN Sub(c, ms, [k \in DOMAIN ms |-> convert_code(Whole(c, ms[k]))])

-----------------------------------------------------------------------------
(* _convert_headers *)

HLevel == [h1 |-> 1, h2 |-> 2, h3 |-> 3, h4 |-> 4, h5 |-> 5, h6 |-> 6]

\* str.replace(ZWSP, '')
remove_zwsp(s) == SelectSeq(s, LAMBDA t : t # ZWSP)

\* The page's own h1 replaced by a heading made from the instance's current file.
convert_header_current_file(m) ==
  LET level == HLevel[m[1].n]
      header_text == strip(remove_zwsp(strip(unescape(strip_tags(SubSeq(m, 2, Len(m) - 1))))))
  IN IF level = 1 THEN <<NL, Txt("#"), SP>> \o Chars(current_file) \o <<NL>>
     ELSE IF header_text = <<>> THEN <<>>
     ELSE <<NL>> \o [i \in 1..level |-> Txt("#")] \o <<SP>> \o header_text \o <<NL>>

convert_header(m) ==
  LET level == HLevel[m[1].n]
      header_content == SubSeq(m, 2, Len(m) - 1)
      header_text == strip(remove_zwsp(strip(unescape(strip_tags(header_content)))))
  IN IF level = 1 THEN <<>>
     ELSE IF header_text = <<>> THEN <<>>
     ELSE <<NL>> \o [i \in 1..level |-> Txt("#")] \o <<SP>> \o header_text \o <<NL>>

\* <h([1-6])[^>]*>(.*?)</h\1>
HeaderEnd(s) ==
  [i \in DOMAIN s |->
     IF s[i].e = 0 /\ s[i].k = "open" /\ s[i].n \in DOMAIN HLevel
     THEN First({j \in DOMAIN s : IsClose(s[j], s[i].n)}, i + 1) ELSE 0]

_convert_headers(c) ==
  LET ms == FindIter(Len(c), HeaderEnd(c))
  IN Sub(c, ms, [k \in DOMAIN ms |-> convert_header(Whole(c, ms[k]))])

-----------------------------------------------------------------------------
(* _convert_custom_blocks *)

\* str.lower() of the pieces that hold a keyword in upper case.
LowerPiece(p) ==
  CASE p = "WARNING" -> "warning" [] p = "DANGER" -> "danger"
    [] p = "TIP" -> "tip" [] p = "INFO" -> "info" [] OTHER -> p

\* 'kw' in full_block.lower(): a text or an attribute value of the block holds kw.
Mentions(block, kw) ==
  \E i \in DOMAIN block :
     \/ block[i].k = "text" /\ LowerPiece(block[i].n) = kw
     \/ \E a \in DOMAIN block[i].at :
           \E q \in DOMAIN block[i].at[a].av : LowerPiece(block[i].at[a].av[q]) = kw

\* href="([^"]+)" searched in a piece of markup: the value, <<>> when absent.
HrefOf(m) ==
  LET has(t) == {a \in DOMAIN t.at : Last(t.at[a].an) = "href" /\ t.at[a].av # <<>>}
      tags == {i \in DOMAIN m : m[i].e = 0 /\ m[i].k = "open" /\ has(m[i]) # {}}
  IN IF tags = {} THEN <<>> ELSE LET t == m[Min(tags)] IN t.at[Min(has(t))].av

MdLink(text, href) ==
  <<Txt("[")>> \o text \o <<Txt("]"), Txt("(")>> \o Pieces(href) \o <<Txt(")")>>

convert_inner_link(link_match) ==
  LET href == HrefOf(link_match)
      link_text == strip_tags(SubSeq(link_match, 2, Len(link_match) - 1))
  IN IF href # <<>> THEN MdLink(link_text, href) ELSE link_text

convert_block(full_block) ==
  LET block_type ==
        IF Mentions(full_block, "warning") THEN "WARNING"
        ELSE IF Mentions(full_block, "danger") THEN "DANGER"
        ELSE IF Mentions(full_block, "tip") THEN "TIP"
        ELSE IF Mentions(full_block, "info") THEN "INFO"
        ELSE "NOTE"
      title(s) ==
        [i \in DOMAIN s |->
           IF IsOpen(s[i], "p") /\ HasAttrValue(s[i], "class", <<"custom-block-title">>)
           THEN First({j \in DOMAIN s : IsClose(s[j], "p")}, i + 1) ELSE 0]
      tms == FindIter(Len(full_block), title(full_block))
      block_content == Sub(full_block, tms, [k \in DOMAIN tms |-> <<>>])
      pms == FindIter(Len(block_content), PairEnd(block_content, "p"))
      paragraphs == [k \in DOMAIN pms |-> Inner(block_content, pms[k])]
      joined == Join(paragraphs, <<SP>>)
      lms == FindIter(Len(joined), PairEnd(joined, "a"))
      linked == Sub(joined, lms, [k \in DOMAIN lms |-> convert_inner_link(Whole(joined, lms[k]))])
      text_content == strip(unescape(strip_tags(linked)))
  IN <<NL, Txt(">"), SP, Txt("**"), Txt(block_type), Txt(":"), Txt("**"), SP>>
     \o text_content \o <<NL>>

\* <div class="[^"]*custom-block[^"]*"[^>]*>.*?</div>
CustomBlockEnd(s) ==
  [i \in DOMAIN s |->
     IF /\ s[i].e = 0 /\ s[i].k = "open" /\ s[i].n = "div"
        /\ \E q \in DOMAIN FirstClass(s[i]) :
              FirstClass(s[i])[q] \in {"custom-block", "custom-block-title"}
     THEN First({j \in DOMAIN s : IsClose(s[j], "div")}, i + 1) ELSE 0]

_convert_custom_blocks(c) ==
  LET ms == FindIter(Len(c), CustomBlockEnd(c))
  IN Sub(c, ms, [k \in DOMAIN ms |-> convert_block(Whole(c, ms[k]))])

-----------------------------------------------------------------------------
(* _convert_tables *)

\* html.unescape(re.sub(r'<[^>]+>', '', x)).strip()
clean(x) == strip(unescape(strip_tags(x)))

\* '| ' + ' | '.join(cells) + ' |'
MdRow(cells) ==
  <<Txt("|"), SP>> \o Join(cells, <<SP, Txt("|"), SP>>) \o <<SP, Txt("|")>>

\* The row left as it is, without the padding loop.
pad_none(row, headers) == row

\* while len(row) < len(headers): row.append('')
pad(row, headers) ==
  [i \in 1..(IF Len(row) < Len(headers) THEN Len(headers) ELSE Len(row)) |->
     IF i <= Len(row) THEN row[i] ELSE <<>>]

\* The cells of the table: [headers, rows].
table_cells(table_html) ==
  LET header_match == Search(Len(table_html), BarePairEnd(table_html, "thead"))
      head == group1(table_html, header_match)
      hms == FindIter(Len(head), PairEnd(head, "th"))
      headers == IF header_match = None THEN <<>>
                 ELSE [k \in DOMAIN hms |-> clean(Inner(head, hms[k]))]
      body_match == Search(Len(table_html), BarePairEnd(table_html, "tbody"))
      body == group1(table_html, body_match)
      rms == FindIter(Len(body), PairEnd(body, "tr"))
      cells(row) ==
        LET cms == FindIter(Len(row), PairEnd(row, "td"))
        IN [k \in DOMAIN cms |-> clean(Inner(row, cms[k]))]
      rows == IF body_match = None THEN <<>>
              ELSE [k \in DOMAIN rms |-> cells(Inner(body, rms[k]))]
  IN [headers |-> headers, rows |-> rows]

convert_table(table_html) ==
  LET headers == table_cells(table_html).headers
      rows == table_cells(table_html).rows
      head_lines ==
        IF headers # <<>>
        THEN <<MdRow(headers), MdRow([i \in DOMAIN headers |-> <<Txt("---")>>])>>
        ELSE <<>>
      md_lines == head_lines \o [k \in DOMAIN rows |-> MdRow(pad(rows[k], headers))]
  IN IF headers = <<>> /\ rows = <<>> THEN <<>>
     ELSE <<NL>> \o Join(md_lines, <<NL>>) \o <<NL>>

_convert_tables(c) ==
  LET ms == FindIter(Len(c), PairEnd(c, "table"))
  IN Sub(c, ms, [k \in DOMAIN ms |-> convert_table(Whole(c, ms[k]))])

-----------------------------------------------------------------------------
(* _convert_images *)

\* name="([^"]+)" searched in the tag: the indexes of the attributes it matches.
AttrsNamed(t, name) == {a \in DOMAIN t.at : Last(t.at[a].an) = name}

convert_image(img_tag) ==
  LET srcs == {a \in AttrsNamed(img_tag, "src") : img_tag.at[a].av # <<>>}
      src == IF srcs # {} THEN img_tag.at[Min(srcs)].av ELSE <<>>
      alts == AttrsNamed(img_tag, "alt")
      alt == IF alts # {} THEN img_tag.at[Min(alts)].av ELSE <<"image">>
  IN IF src = <<>> THEN <<>>
     ELSE <<NL, Txt("!"), Txt("[")>> \o Pieces(alt) \o <<Txt("]"), Txt("(")>>
          \o Pieces(src) \o <<Txt(")"), NL>>

\* <img[^>]+/?>
ImgEnd(s) ==
  [i \in DOMAIN s |-> IF IsOpen(s[i], "img") /\ s[i].at # <<>> THEN i ELSE 0]

_convert_images(c) ==
  LET ms == FindIter(Len(c), ImgEnd(c))
  IN Sub(c, ms, [k \in DOMAIN ms |-> convert_image(c[ms[k][1]])])

-----------------------------------------------------------------------------
(* _convert_links *)

convert_link(full_tag) ==
  LET href == HrefOf(full_tag)
      link_text == clean(SubSeq(full_tag, 2, Len(full_tag) - 1))
  IN IF link_text = <<>> \/ href = <<>> THEN link_text
     ELSE IF href[1] = "#" THEN link_text
     ELSE MdLink(link_text, href)

_convert_links(c) ==
  LET ms == FindIter(Len(c), PairEnd(c, "a"))
  IN Sub(c, ms, [k \in DOMAIN ms |-> convert_link(Whole(c, ms[k]))])

-----------------------------------------------------------------------------
(* _convert_lists *)

list_items(list_content) ==
  LET ms == FindIter(Len(list_content), PairEnd(list_content, "li"))
  IN [k \in DOMAIN ms |-> clean(Inner(list_content, ms[k]))]

convert_ul(m) ==
  LET items == list_items(SubSeq(m, 2, Len(m) - 1))
  IN <<NL>> \o Join([k \in DOMAIN items |-> <<Txt("-"), SP>> \o items[k]], <<NL>>) \o <<NL>>

convert_ol(m) ==
  LET items == list_items(SubSeq(m, 2, Len(m) - 1))
  IN <<NL>>
     \o Join([k \in DOMAIN items |-> <<Txt(ToString(k)), Txt("."), SP>> \o items[k]], <<NL>>)
     \o <<NL>>

_convert_lists(c) ==
  LET ms1 == FindIter(Len(c), PairEnd(c, "ul"))
      c1 == Sub(c, ms1, [k \in DOMAIN ms1 |-> convert_ul(Whole(c, ms1[k]))])
      ms2 == FindIter(Len(c1), PairEnd(c1, "ol"))
  IN Sub(c1, ms2, [k \in DOMAIN ms2 |-> convert_ol(Whole(c1, ms2[k]))])

-----------------------------------------------------------------------------
(* _convert_paragraphs *)

\* Three backquotes in a row start at i.
FenceAt(s, i) == i + 2 <= Len(s) /\ s[i] = BT /\ s[i + 1] = BT /\ s[i + 2] = BT

\* The paragraph's text without the newlines around it.
convert_p_unspaced(m) ==
  LET p_content == SubSeq(m, 2, Len(m) - 1)
  IN IF \E i \in DOMAIN p_content : FenceAt(p_content, i) THEN p_content
     ELSE clean(p_content)

convert_p(m) ==
  LET p_content == SubSeq(m, 2, Len(m) - 1)
      text == clean(p_content)
  IN IF \E i \in DOMAIN p_content : FenceAt(p_content, i) THEN p_content
     ELSE IF text # <<>> THEN <<NL>> \o text \o <<NL>>
     ELSE <<>>

_convert_paragraphs(c) ==
  LET ms == FindIter(Len(c), PairEnd(c, "p"))
  IN Sub(c, ms, [k \in DOMAIN ms |-> convert_p(Whole(c, ms[k]))])

-----------------------------------------------------------------------------
(* _convert_text_formatting *)

\* re.sub(r'<name>(.*?)</name>', mark + r'\1' + mark, c)
wrap(c, name, mark) ==
  LET ms == FindIter(Len(c), BarePairEnd(c, name))
  IN Sub(c, ms, [k \in DOMAIN ms |-> <<Txt(mark)>> \o Inner(c, ms[k]) \o <<Txt(mark)>>])

_convert_text_formatting(c) ==
  wrap(wrap(wrap(wrap(wrap(wrap(c, "strong", "**"), "b", "**"), "em", "*"), "i", "*"),
            "del", "~~"), "s", "~~")

-----------------------------------------------------------------------------
(* _clean_html_entities *)

_clean_html_entities(c) == remove_zwsp(remove_zwsp(unescape(c)))

-----------------------------------------------------------------------------
(* _cleanup_whitespace *)

\* The tokens of s at the indexes in keep, in order.
Keep(s, keep) ==
  LET f[i \in 0..Len(s)] ==
        IF i = 0 THEN <<>> ELSE IF i \in keep THEN Append(f[i - 1], s[i]) ELSE f[i - 1]
  IN f[Len(s)]

\* re.sub(r'\n{3,}', '\n\n', s)
collapse(s) ==
  Keep(s, {i \in DOMAIN s : ~(IsNL(s[i]) /\ i > 2 /\ IsNL(s[i - 1]) /\ IsNL(s[i - 2]))})

\* '\n'.join(line.strip() for line in s.split('\n'))
strip_lines(s) ==
  LET nls == {i \in DOMAIN s : IsNL(s[i])}
      text == {i \in DOMAIN s : ~IsWs(s[i])}
      \* the line of i runs from after the newline before i to the newline after i
      from(i) == IF {j \in nls : j < i} = {} THEN 1
                 ELSE (CHOOSE j \in nls : j < i /\ \A m \in nls : m < i => m <= j) + 1
      to(i) == IF First(nls, i) = 0 THEN Len(s) ELSE First(nls, i) - 1
      inside(i) == (\E j \in text : from(i) <= j /\ j < i) /\ (\E j \in text : i < j /\ j <= to(i))
  IN Keep(s, {i \in DOMAIN s : ~IsWs(s[i]) \/ IsNL(s[i]) \/ inside(i)})

\* ```[\s\S]*?```
FenceEnd(s) ==
  [i \in DOMAIN s |->
     IF FenceAt(s, i)
     THEN LET j == First({m \in DOMAIN s : FenceAt(s, m)}, i + 3) IN
          IF j = 0 THEN 0 ELSE j + 2
     ELSE 0]

clean_part(part) ==
  IF FenceAt(part, 1) THEN part ELSE strip_lines(collapse(strip_tags(part)))

_cleanup_whitespace(c) ==
  LET ms == FindIter(Len(c), FenceEnd(c))
      \* parts[2k] is the k-th code block, parts[2k+1] the text after it
      between(k) == SubSeq(c, IF k = 0 THEN 1 ELSE ms[k][2] + 1,
                           IF k = Len(ms) THEN Len(c) ELSE ms[k + 1][1] - 1)
      cleaned_parts ==
        [p \in 1..(2 * Len(ms) + 1) |->
           IF p % 2 = 0 THEN clean_part(Whole(c, ms[p \div 2]))
           ELSE clean_part(between(p \div 2))]
  IN strip(collapse(Flatten(cleaned_parts)))

-----------------------------------------------------------------------------
(* _generate_title: the filename is a sequence of characters *)

LowerChars == <<"a", "b", "c", "d", "e", "f", "g", "h", "i", "j", "k", "l", "m",
                "n", "o", "p", "q", "r", "s", "t", "u", "v", "w", "x", "y", "z">>
UpperChars == <<"A", "B", "C", "D", "E", "F", "G", "H", "I", "J", "K", "L", "M",
                "N", "O", "P", "Q", "R", "S", "T", "U", "V", "W", "X", "Y", "Z">>
lower_char(c) ==
  IF \E i \in DOMAIN UpperChars : UpperChars[i] = c
  THEN LowerChars[CHOOSE i \in DOMAIN UpperChars : UpperChars[i] = c] ELSE c
upper_char(c) ==
  IF \E i \in DOMAIN LowerChars : LowerChars[i] = c
  THEN UpperChars[CHOOSE i \in DOMAIN LowerChars : LowerChars[i] = c] ELSE c
\* str.lower(), str.upper(), str.capitalize()
lower(w) == [i \in DOMAIN w |-> lower_char(w[i])]
upper(w) == [i \in DOMAIN w |-> upper_char(w[i])]
capitalize(w) == [i \in DOMAIN w |-> IF i = 1 THEN upper_char(w[i]) ELSE lower_char(w[i])]

\* Path(filename).stem, for a filename that holds no path separator.
stem(f) ==
  LET dots == {i \in DOMAIN f : f[i] = "."}
      i == IF dots = {} THEN 0 ELSE CHOOSE d \in dots : \A x \in dots : x <= d
  IN IF 1 < i /\ i < Len(f) THEN SubSeq(f, 1, i - 1) ELSE f

\* str.split(): the maximal runs of characters that are not whitespace.
split(nm) ==
  LET starts == {i \in DOMAIN nm : nm[i] # " " /\ (i = 1 \/ nm[i - 1] = " ")}
      stop(i) == IF First({j \in DOMAIN nm : nm[j] = " "}, i) = 0 THEN Len(nm)
                 ELSE First({j \in DOMAIN nm : nm[j] = " "}, i) - 1
      f[from \in 1..(Len(nm) + 1)] ==
        LET i == First(starts, from) IN
        IF i = 0 THEN <<>> ELSE <<SubSeq(nm, i, stop(i))>> \o f[stop(i) + 1]
  IN f[1]

API_REFERENCE == <<"a", "p", "i", " ", "r", "e", "f", "e", "r", "e", "n", "c", "e", " ">>
API_Reference == <<"A", "P", "I", " ", "R", "e", "f", "e", "r", "e", "n", "c", "e", ":", " ">>
ACRONYMS == {<<"a", "p", "i">>, <<"p", "d", "f">>, <<"s", "v", "g">>,
             <<"h", "t", "m", "l">>, <<"c", "s", "s">>}

title_word_case_sensitive(word) ==
  IF word \in ACRONYMS THEN upper(word) ELSE capitalize(word)

title_word(word) ==
  IF lower(word) \in ACRONYMS THEN upper(word) ELSE capitalize(word)

\* name.replace('_', ' ').replace('-', ' ')
replace_separators(name) ==
  [i \in DOMAIN name |-> IF name[i] \in {"_", "-"} THEN " " ELSE name[i]]

\* re.sub(r'^api reference ', 'API Reference: ', name, flags=re.IGNORECASE)
api_reference(name) ==
  LET n == Len(API_REFERENCE) IN
  IF Len(name) >= n /\ lower(SubSeq(name, 1, n)) = API_REFERENCE
  THEN API_Reference \o SubSeq(name, n + 1, Len(name))
  ELSE name

\* ' '.join(title_words) over name.split()
title_case(name) ==
  LET words == split(name)
  IN Join([k \in DOMAIN words |-> title_word(words[k])], <<" ">>)

_generate_title(f) == title_case(api_reference(replace_separators(stem(f))))

-----------------------------------------------------------------------------
(* Documents and filenames the conversions are run on *)

MaxLines == 2
MaxHeaders == 2
MaxRows == 2
MaxCells == 2
MaxCalls == 2
MaxDepth == 1

\* All sequences over S of a length in lo..hi.
SeqsOf(S, lo, hi) == UNION {[1..n -> S] : n \in lo..hi}

X == Txt("x")
CLASS(v) == Attr(<<"class">>, v)

\* The contents of one line-span: empty, plain, indented, inside a styling span,
\* and entity-encoded markup.
LineTexts ==
  {<<>>, <<X>>, <<SP, SP, X>>,
   <<Open("span", <<Attr(<<"style">>, <<"c">>)>>), X, Close("span")>>,
   <<Esc(Open("b", <<>>)), X, Esc(Close("b"))>>}

LineSpans(lines) ==
  Join([k \in DOMAIN lines |-> <<Open("span", <<CLASS(<<"line">>)>>)>> \o lines[k] \o <<Close("span")>>],
       <<NL>>)

\* The highlighter's container: <div class="language-L ..."><button class="copy">
\* <span class="lang">L</span><pre ...><code>line-spans</code></pre></div>
CodeBlock(lang, lines) ==
  <<Open("div", <<CLASS(<<"language-", lang, " ", "vp-adaptive-theme">>)>>),
    Open("button", <<Attr(<<"title">>, <<"Copy">>), CLASS(<<"copy">>)>>), Close("button"),
    Open("span", <<CLASS(<<"lang">>)>>), Txt(lang), Close("span"),
    Open("pre", <<CLASS(<<"shiki">>)>>), Open("code", <<>>)>>
  \o LineSpans(lines)
  \o <<Close("code"), Close("pre"), Close("div")>>

In(tag, inner) == <<Open(tag, <<>>)>> \o inner \o <<Close(tag)>>

CodeDocs ==
  {CodeBlock("csharp", lines) : lines \in SeqsOf(LineTexts, 1, MaxLines)}
  \cup {pre \o In(tag, CodeBlock("csharp", lines)) :
          pre \in {<<>>, <<X, NL>>}, tag \in {"p", "li", "td"},
          lines \in {<<<<X>>, <<SP, SP, X>>>>, <<<<Esc(Open("b", <<>>)), X, Esc(Close("b"))>>>>}}
  \cup {\* a container with no code element, one with no language class, a plain pre/code pair
        <<Open("div", <<CLASS(<<"language-", "js">>)>>), Open("pre", <<>>), X, Close("pre"),
          Close("div")>>,
        <<Open("div", <<CLASS(<<"language-">>)>>), Open("span", <<CLASS(<<"lang">>)>>),
          Txt("sh"), Close("span"), Open("pre", <<>>), Open("code", <<>>)>>
          \o LineSpans(<<<<X>>>>) \o <<SP, Close("code"), Close("pre"), NL, Close("div")>>,
        <<Open("pre", <<>>), NL, Open("code", <<>>), SP, X, NL, NL, NL, Esc(Txt("&")), X,
          Close("code"), Close("pre")>>,
        <<X, Open("code", <<>>), Open("b", <<>>), X, Close("b"), Close("code"), X>>}

\* A table with h header cells and, for each data row, rows[k] cells.
Table(h, rows) ==
  <<Open("table", <<>>)>>
  \o (IF h = 0 THEN <<>>
      ELSE In("thead", In("tr", Flatten([i \in 1..h |-> In("th", <<Txt("H")>>)]))))
  \o (IF rows = <<>> THEN <<>>
      ELSE In("tbody", Flatten([k \in DOMAIN rows |->
                In("tr", Flatten([i \in 1..rows[k] |-> In("td", <<Txt("c")>>)]))])))
  \o <<Close("table")>>

TableDocs ==
  {Table(h, rows) : h \in 0..MaxHeaders, rows \in SeqsOf(0..MaxCells, 0, MaxRows)}

HREFS == {<<"#", "sec">>, <<"page.html">>, <<>>}
Link(href, text) ==
  <<Open("a", IF href = <<>> THEN <<>> ELSE <<Attr(<<"href">>, href)>>)>> \o text \o <<Close("a")>>
Callout(kind, inner) ==
  <<Open("div", <<CLASS(<<kind, " ", "custom-block">>)>>),
    Open("p", <<CLASS(<<"custom-block-title">>)>>), Txt("TITLE"), Close("p")>>
  \o In("p", inner) \o <<Close("div")>>

LinkDocs ==
  UNION {{<<Txt("see"), SP>> \o Link(h, <<Txt("here")>>),
          In("p", <<Txt("see"), SP>> \o Link(h, <<Txt("here")>>)),
          In("ul", In("li", Link(h, <<Txt("here")>>))),
          In("ol", In("li", Link(h, <<Txt("here")>>)) \o In("li", <<X>>)),
          Table(1, <<>>) \o In("table", In("tbody", In("tr", In("td", Link(h, <<Txt("here")>>))))),
          Callout("warning", <<Txt("see"), SP>> \o Link(h, <<Txt("here")>>)),
          Callout("details", Link(h, In("b", <<Txt("here")>>))),
          In("h2", <<Txt("Title"), SP>>
                   \o <<Open("a", <<CLASS(<<"header-anchor">>), Attr(<<"href">>, h)>>), ZWSP,
                        Close("a")>>)} : h \in HREFS}

IMG_ATTRS ==
  {<<>>,
   <<Attr(<<"src">>, <<"a.png">>)>>,
   <<Attr(<<"src">>, <<"a.png">>), Attr(<<"alt">>, <<"logo">>)>>,
   <<Attr(<<"alt">>, <<"logo">>)>>,
   <<Attr(<<"alt">>, <<>>), Attr(<<"src">>, <<"a.png">>)>>,
   <<Attr(<<"data-", "src">>, <<"lazy.png">>)>>,
   <<Attr(<<"data-", "src">>, <<"lazy.png">>), Attr(<<"alt">>, <<"logo">>)>>,
   <<Attr(<<"src">>, <<>>), Attr(<<"width">>, <<"10">>)>>}

ImageDocs ==
  {<<X>> \o <<Open("img", at)>> \o <<X>> : at \in IMG_ATTRS}
  \cup {In("p", <<Open("img", at)>>) : at \in IMG_ATTRS}

\* <h2>Setup</h2><p>Install it.</p> and a csharp block of two lines
SetupDoc ==
  In("h2", <<Txt("Setup")>>) \o In("p", <<Txt("Install"), SP, Txt("it.")>>)
  \o CodeBlock("csharp", <<<<Txt("foo();")>>, <<Txt("bar();")>>>>)

\* The content region inside a page, and markup that does not pair up.
PageDocs ==
  UNION {{<<Open("body", <<>>)>> \o c \o <<Close("body")>>,
          <<Open("main", <<CLASS(<<"main">>)>>)>> \o c \o <<Close("main")>>,
          <<Open("body", <<>>), Txt("nav")>> \o In("main", c) \o <<Txt("footer"), Close("body")>>,
          In("main", c) \o In("main", <<Txt("second")>>),
          <<Open("main", <<>>)>> \o c,
          <<Close("main")>> \o c \o <<Open("main", <<>>)>>,
          <<Open("main", <<>>)>> \o In("body", c),
          c \o <<Open("p", <<>>)>>,
          c \o <<Close("div"), Open("h2", <<>>), Close("h3"), Open("table", <<>>)>>}
         : c \in {<<>>, <<X>>, SetupDoc}}

MiscDocs ==
  {SetupDoc,
   <<>>,
   <<SP, NL, X, SP, SP, NL, NL, NL, NL, SP, X, SP, X, NL>>,
   In("h1", <<Txt("Page")>>) \o In("h3", <<Esc(Txt("&")), ZWSP>>) \o In("h2", <<ZWSP>>),
   In("p", In("strong", <<X>>)) \o In("strong", <<X>>) \o In("em", <<X>>) \o In("i", <<X>>)
     \o In("del", <<X>>) \o In("s", <<X>>) \o In("b", <<X>>),
   <<Open("div", <<Attr(<<"aria-", "hidden">>, <<"true">>)>>), Txt("hint"), Close("div"), X>>,
   <<Esc(Esc(Txt("&"))), SP, Esc(Open("p", <<>>)), X, Esc(Close("p")), Esc(ZWSP), ZWSP>>,
   <<BT, BT, BT, NL, SP, X, NL, NL, NL, X, NL, BT, BT, BT, NL, SP, X, SP, NL, BT, BT, BT, SP, X>>,
   Callout("tip", <<X>>) \o Callout("info", <<X>>) \o Callout("danger", <<X>>)
     \o <<Open("div", <<CLASS(<<"custom-block">>)>>)>> \o In("p", <<X>>) \o In("p", <<X>>)
     \o <<Close("div")>>}

\* The elements _remove_hidden_elements looks for: the opening tag of each kind.
HIDDEN_TAGS ==
  {Open("div", <<Attr(<<"aria-", "hidden">>, <<"true">>)>>),
   Open("div", <<CLASS(<<"hint">>), Attr(<<"hidden">>, <<"true">>)>>),
   Open("button", <<Attr(<<"title">>, <<"Copy">>), CLASS(<<"copy">>)>>),
   Open("a", <<CLASS(<<"header-anchor">>), Attr(<<"href">>, <<"#", "sec">>)>>)}

\* Content with d levels of elements of the same name nested in it.
Nested(name, d) ==
  LET f[k \in 0..d] ==
        IF k = 0 THEN <<Txt("hint")>>
        ELSE <<Txt("hint")>> \o In(name, f[k - 1]) \o <<Txt("tail")>>
  IN f[d]

\* before <element>content nested d deep</element> after
HiddenDoc(tag, d) ==
  <<Txt("before"), tag>> \o Nested(tag.n, d) \o <<Close(tag.n), Txt("after")>>

HiddenDocs ==
  {HiddenDoc(tag, d) : tag \in HIDDEN_TAGS, d \in 0..MaxDepth}
  \cup {\* elements that are not hidden ones
        <<Txt("before"), Open("div", <<Attr(<<"aria-", "hidden">>, <<"false">>)>>), Txt("hidden"),
          Close("div"), Txt("after")>>,
        <<Txt("before"), Open("button", <<CLASS(<<"copy", " ", "big">>)>>), Txt("copy"),
          Close("button"), Txt("after")>>}

Documents ==
  CodeDocs \cup TableDocs \cup LinkDocs \cup ImageDocs \cup PageDocs \cup MiscDocs \cup HiddenDocs

SETUP_HTML == <<"s", "e", "t", "u", "p", ".", "h", "t", "m", "l">>
Filenames ==
  {SETUP_HTML,
   <<"a", "p", "i", "_", "r", "e", "f", "e", "r", "e", "n", "c", "e", "_", "f", "o", "n", "t", "s",
     ".", "h", "t", "m", "l">>}

-----------------------------------------------------------------------------
(* convert_file, one stage of the pipeline per step *)

Raises(out) == \E i \in DOMAIN out : out[i].k = "exc"

\* One statement content = self._stage(content): an exception leaves convert_file.
Stage(from, to, out) ==
  /\ pc = from
  /\ IF Raises(out) THEN pc' = "raised" /\ content' = content
     ELSE pc' = to /\ content' = out
  /\ UNCHANGED <<html_content, filename, current_file, result, calls, prev, batch>>

Init ==
  /\ html_content = <<>>
  /\ filename = <<>>
  /\ current_file = <<>>
  /\ content = <<>>
  /\ pc = "idle"
  /\ result = <<>>
  /\ calls = 0
  /\ prev = [html |-> <<>>, file |-> <<>>, out |-> <<>>]
  /\ input_dir = {} /\ html_files = <<>> /\ index = 0 /\ output_dir = {} /\ log = <<>>

\* A call convert_file(html_content, filename) on the instance: the first call on
\* any document, a later one on the same document under another filename or on
\* the output of the call before it.
Call ==
  /\ pc = "idle"
  /\ calls < MaxCalls
  /\ \E d \in (IF calls = 0 THEN Documents ELSE {prev.html, prev.out}), f \in Filenames :
        /\ calls > 0 => (d = prev.html /\ f # prev.file) \/ (d = prev.out /\ f = prev.file)
        /\ html_content' = d
        /\ filename' = f
        /\ current_file' = f
  /\ calls' = calls + 1
  /\ pc' = "extract"
  /\ content' = <<>>
  /\ result' = <<>>
  /\ UNCHANGED <<prev, batch>>

ExtractMainContent == Stage("extract", "hidden", _extract_main_content(html_content))
RemoveHiddenElements == Stage("hidden", "code_blocks", _remove_hidden_elements(content))
ConvertCodeBlocks == Stage("code_blocks", "inline_code", _convert_code_blocks(content))
ConvertInlineCode == Stage("inline_code", "headers", _convert_inline_code(content))
ConvertHeaders == Stage("headers", "custom_blocks", _convert_headers(content))
ConvertCustomBlocks == Stage("custom_blocks", "tables", _convert_custom_blocks(content))
ConvertTables == Stage("tables", "images", _convert_tables(content))
ConvertImages == Stage("images", "links", _convert_images(content))
ConvertLinks == Stage("links", "lists", _convert_links(content))
ConvertLists == Stage("lists", "paragraphs", _convert_lists(content))
ConvertParagraphs == Stage("paragraphs", "formatting", _convert_paragraphs(content))
ConvertTextFormatting == Stage("formatting", "entities", _convert_text_formatting(content))
CleanHtmlEntities == Stage("entities", "whitespace", _clean_html_entities(content))
CleanupWhitespace == Stage("whitespace", "title", _cleanup_whitespace(content))

\* return f"# {title}\n\n{content}"
title_line(f) == <<Txt("#"), SP>> \o Chars(_generate_title(f)) \o <<NL, NL>>

\* convert_file(html_content, filename) as one function: the stages in order on
\* local values, with nothing taken from the instance (each c_k is the one value
\* content holds after the k-th stage).
convert_file(d, f) ==
  LET c1 == {_extract_main_content(d)}
      c2 == {_remove_hidden_elements(c) : c \in c1}
      c3 == {_convert_code_blocks(c) : c \in c2}
      c4 == {_convert_inline_code(c) : c \in c3}
      c5 == {_convert_headers(c) : c \in c4}
      c6 == {_convert_custom_blocks(c) : c \in c5}
      c7 == {_convert_tables(c) : c \in c6}
      c8 == {_convert_images(c) : c \in c7}
      c9 == {_convert_links(c) : c \in c8}
      c10 == {_convert_lists(c) : c \in c9}
      c11 == {_convert_paragraphs(c) : c \in c10}
      c12 == {_convert_text_formatting(c) : c \in c11}
      c13 == {_clean_html_entities(c) : c \in c12}
      c14 == {_cleanup_whitespace(c) : c \in c13}
  IN title_line(f) \o (CHOOSE c \in c14 : TRUE)

\* The output appended to what the call before left behind.
ReturnShared ==
  /\ pc = "title"
  /\ result' = prev.out \o title_line(filename) \o content
  /\ pc' = "done"
  /\ UNCHANGED <<html_content, filename, current_file, content, calls, prev, batch>>

Return ==
  /\ pc = "title"
  /\ result' = title_line(filename) \o content
  /\ pc' = "done"
  /\ UNCHANGED <<html_content, filename, current_file, content, calls, prev, batch>>

\* The caller keeps the output and the instance is ready for the next call.
NextCall ==
  /\ pc = "done"
  /\ prev' = [html |-> html_content, file |-> filename, out |-> result]
  /\ pc' = "idle"
  /\ UNCHANGED <<html_content, filename, current_file, content, result, calls, batch>>

Next ==
  \/ Call
  \/ ExtractMainContent
  \/ RemoveHiddenElements
  \/ ConvertCodeBlocks
  \/ ConvertInlineCode
  \/ ConvertHeaders
  \/ ConvertCustomBlocks
  \/ ConvertTables
  \/ ConvertImages
  \/ ConvertLinks
  \/ ConvertLists
  \/ ConvertParagraphs
  \/ ConvertTextFormatting
  \/ CleanHtmlEntities
  \/ CleanupWhitespace
  \/ Return
  \/ NextCall

Spec == Init /\ [][Next]_vars

-----------------------------------------------------------------------------
(* _generate_title alone, one statement per step, over many filenames *)

MaxWords == 3

WORD_API == <<"a", "p", "i">>
WORD_REFERENCE == <<"r", "e", "f", "e", "r", "e", "n", "c", "e">>
TitleWords ==
  {<<>>, WORD_API, <<"A", "p", "I">>, WORD_REFERENCE, <<"f", "o", "n", "t", "s">>,
   <<"P", "D", "F">>, <<"g", "e", "t", "t", "i", "n", "g">>, <<"s", "t", "a", "r", "t", "e", "d">>}
DOT_HTML == <<".", "h", "t", "m", "l">>

\* words[1] sep[1] words[2] ... followed by the extension
Named(words, seps, ext) ==
  LET f[i \in 1..Len(words)] ==
        IF i = 1 THEN words[1] ELSE f[i - 1] \o <<seps[i - 1]>> \o words[i]
  IN f[Len(words)] \o ext

TitleFilenames ==
  UNION {{Named(ws, seps, DOT_HTML) : ws \in [1..n -> TitleWords], seps \in [1..(n - 1) -> {"_", "-"}]}
         : n \in 1..MaxWords}
  \cup {<<>>, DOT_HTML, <<"a", ".", "b">> \o DOT_HTML, WORD_API, <<"c", "s", "s", ".">>}

InitTitle ==
  /\ filename \in TitleFilenames
  /\ html_content = <<>>
  /\ current_file = <<>>
  /\ content = <<>>
  /\ pc = "stem"
  /\ result = <<>>
  /\ calls = 0
  /\ prev = [html |-> <<>>, file |-> <<>>, out |-> <<>>]
  /\ input_dir = {} /\ html_files = <<>> /\ index = 0 /\ output_dir = {} /\ log = <<>>

\* name holds the working string of _generate_title in content
TitleStep(from, to, name) ==
  /\ pc = from
  /\ content' = name
  /\ pc' = to
  /\ UNCHANGED <<html_content, filename, current_file, result, calls, prev, batch>>

TitleStem == TitleStep("stem", "replace", stem(filename))
TitleReplace == TitleStep("replace", "prefix", replace_separators(content))
TitlePrefix == TitleStep("prefix", "case", api_reference(content))
TitleCase ==
  /\ pc = "case"
  /\ result' = title_case(content)
  /\ pc' = "titled"
  /\ UNCHANGED <<html_content, filename, current_file, content, calls, prev, batch>>

NextTitle == TitleStem \/ TitleReplace \/ TitlePrefix \/ TitleCase

SpecTitle == InitTitle /\ [][NextTitle]_vars

-----------------------------------------------------------------------------
(* convert_directory: one converter, one pass over the .html files *)

MaxFiles == 2

DOT_MD == <<".", "m", "d">>
\* The names the input directory may hold; the last one is no .html file.
DirNames ==
  {SETUP_HTML, <<"a", ".", "b">> \o DOT_HTML, DOT_HTML, DOT_HTML \o DOT_HTML,
   <<"s", "e", "t", "u", "p">> \o DOT_MD}
\* What reading a file may give.
DirDocs == {SetupDoc, <<X>>}

\* input_path.glob('*.html'): the names ending in .html
IsHtmlName(n) ==
  Len(n) >= Len(DOT_HTML) /\ SubSeq(n, Len(n) - Len(DOT_HTML) + 1, Len(n)) = DOT_HTML
HtmlNames(dir) == {n \in dir : IsHtmlName(n)}
\* The lists holding each name of S once: glob promises no order.
Listings(S) ==
  {q \in [1..Cardinality(S) -> S] : \A a, b \in 1..Cardinality(S) : q[a] = q[b] => a = b}

\* md_filename = html_file.stem + '.md'
md_filename(f) == stem(f) \o DOT_MD

\* open(output_file, 'w') and f.write(text): the file of that name holds text.
written(dir, name, text) ==
  {o \in dir : o.name # name} \cup {[name |-> name, content |-> text]}

InitDirectory ==
  /\ input_dir \in {S \in SUBSET DirNames : Cardinality(S) <= MaxFiles}
  /\ html_files = <<>> /\ index = 0 /\ output_dir = {} /\ log = <<>>
  /\ html_content = <<>>
  /\ filename = <<>>
  /\ current_file = <<>>
  /\ content = <<>>
  /\ pc = "glob"
  /\ result = <<>>
  /\ calls = 0
  /\ prev = [html |-> <<>>, file |-> <<>>, out |-> <<>>]

\* converter = HtmlToMarkdownConverter(); html_files = list(input_path.glob('*.html'))
Glob ==
  /\ pc = "glob"
  /\ html_files' \in Listings(HtmlNames(input_dir))
  /\ current_file' = <<>>
  /\ pc' = "for"
  /\ UNCHANGED <<html_content, filename, content, result, calls, prev,
                 input_dir, index, output_dir, log>>

\* for html_file in html_files: the next file
ForEach ==
  /\ pc = "for"
  /\ index < Len(html_files)
  /\ index' = index + 1
  /\ filename' = html_files[index + 1]
  /\ pc' = "read"
  /\ UNCHANGED <<html_content, current_file, content, result, calls, prev,
                 input_dir, html_files, output_dir, log>>

\* The handler that goes back to the list no more.
ExceptAborts(stage, opened) ==
  /\ log' = Append(log, [file |-> filename, status |-> "error", at |-> stage, opened |-> opened])
  /\ pc' = "end"

\* except Exception as e: print(Error converting ...), and on to the next file.
\* stage is the statement that raised, opened the output files it had opened.
Except(stage, opened) ==
  /\ log' = Append(log, [file |-> filename, status |-> "error", at |-> stage, opened |-> opened])
  /\ pc' = "for"

\* with open(html_file, 'r', encoding='utf-8') as f: html_content = f.read()
Read ==
  /\ pc = "read"
  /\ \/ \E d \in DirDocs : html_content' = d /\ pc' = "convert" /\ UNCHANGED log
     \/ Except("read", <<>>) /\ UNCHANGED html_content
  /\ UNCHANGED <<filename, current_file, content, result, calls, prev,
                 input_dir, html_files, index, output_dir>>

\* markdown_content = converter.convert_file(html_content, html_file.name): the
\* call enters convert_file, whose stages are the steps ExtractMainContent to
\* Return; the handler takes any exception that leaves the call.
Convert ==
  /\ pc = "convert"
  /\ current_file' = filename
  /\ \/ pc' = "extract" /\ content' = <<>> /\ result' = <<>> /\ UNCHANGED log
     \/ Except("convert", <<>>) /\ UNCHANGED <<content, result>>
  /\ UNCHANGED <<html_content, filename, calls, prev,
                 input_dir, html_files, index, output_dir>>

\* with open(output_file, 'w', encoding='utf-8') as f: f.write(markdown_content)
\* and the report: open may fail, write may fail with the file already opened
\* (and emptied), or the whole text is written.
Write ==
  /\ pc = "done"
  /\ LET name == md_filename(filename) IN
     \/ Except("write", <<>>) /\ UNCHANGED output_dir
     \/ Except("write", <<name>>) /\ output_dir' = written(output_dir, name, <<>>)
     \/ /\ output_dir' = written(output_dir, name, result)
        /\ log' = Append(log, [file |-> filename, status |-> "created", at |-> "",
                               opened |-> <<name>>])
        /\ pc' = "for"
  /\ UNCHANGED <<html_content, filename, current_file, content, result, calls, prev,
                 input_dir, html_files, index>>

\* print("Conversion complete! ...") after the last file
Complete ==
  /\ pc = "for"
  /\ index = Len(html_files)
  /\ pc' = "end"
  /\ UNCHANGED <<html_content, filename, current_file, content, result, calls, prev, batch>>

NextDirectory ==
  \/ Glob
  \/ ForEach
  \/ Read
  \/ Convert
  \/ ExtractMainContent
  \/ RemoveHiddenElements
  \/ ConvertCodeBlocks
  \/ ConvertInlineCode
  \/ ConvertHeaders
  \/ ConvertCustomBlocks
  \/ ConvertTables
  \/ ConvertImages
  \/ ConvertLinks
  \/ ConvertLists
  \/ ConvertParagraphs
  \/ ConvertTextFormatting
  \/ CleanHtmlEntities
  \/ CleanupWhitespace
  \/ Return
  \/ Write
  \/ Complete

\* The statements of convert_directory itself, and a step inside convert_file:
\* while the call is at one of its stages, pc moves on.
DirectoryStep == Glob \/ ForEach \/ Read \/ Convert \/ Write \/ Complete
StagePcs ==
  {"extract", "hidden", "code_blocks", "inline_code", "headers", "custom_blocks", "tables",
   "images", "links", "lists", "paragraphs", "formatting", "entities", "whitespace", "title"}
ConvertFileStep == pc \in StagePcs /\ pc' \in (StagePcs \cup {"done", "raised"}) \ {pc}

\* The interpreter runs the next statement as long as there is one.
SpecDirectory ==
  InitDirectory /\ [][NextDirectory]_vars /\ WF_vars(DirectoryStep) /\ WF_pc(ConvertFileStep)

-----------------------------------------------------------------------------
(* Properties *)

\* What the stages before _convert_code_blocks hand to it, and what it returns.
BeforeCodeBlocks == _remove_hidden_elements(_extract_main_content(html_content))
AfterCodeBlocks == _convert_code_blocks(BeforeCodeBlocks)

\* s.split('\n')
LinesOf(s) ==
  LET nls == {i \in DOMAIN s : IsNL(s[i])}
      f[from \in 1..(Len(s) + 1)] ==
        LET i == First(nls, from) IN
        IF i = 0 THEN <<SubSeq(s, from, Len(s))>> ELSE <<SubSeq(s, from, i - 1)>> \o f[i + 1]
  IN f[1]

\* x occurs in s as a run of consecutive tokens starting at i.
OccursAt(s, x, i) == i >= 1 /\ i + Len(x) - 1 <= Len(s) /\ SubSeq(s, i, i + Len(x) - 1) = x
Occurs(s, x) == \E i \in 1..(Len(s) + 1) : OccursAt(s, x, i)

\* An element <name ...> ... </name> is present in h.
HasRegion(h, name) ==
  \E i, j \in DOMAIN h : i < j /\ IsOpen(h[i], name) /\ IsClose(h[j], name)
Regions(h, name) ==
  {SubSeq(h, i + 1, j - 1) : <<i, j>> \in
     {x \in (DOMAIN h) \X (DOMAIN h) : x[1] < x[2] /\ IsOpen(h[x[1]], name) /\ IsClose(h[x[2]], name)}}
IsContainer(t) ==
  t.e = 0 /\ t.k = "open" /\ t.n = "div" /\ FirstClass(t) # <<>> /\ FirstClass(t)[1] = "language-"
HasCode(h) == \E i \in DOMAIN h : IsOpen(h[i], "code")

\* C1: convert_file never raises and returns text; after _extract_main_content the
\* content is a <main> region when the input has one, else a <body> region when
\* it has one, else the whole input; a content with a code-block container and
\* no <code> element leaves _convert_code_blocks as it entered.
C1_TotalAndDegrades ==
  /\ pc # "raised"
  /\ ~Raises(content) /\ ~Raises(result)
  /\ pc = "hidden" =>
       IF HasRegion(html_content, "main") THEN content \in Regions(html_content, "main")
       ELSE IF HasRegion(html_content, "body") THEN content \in Regions(html_content, "body")
       ELSE content = html_content
  /\ (pc = "inline_code" /\ ~HasCode(BeforeCodeBlocks)) => content = BeforeCodeBlocks

C1_Witness ==
  /\ pc = "done"
  /\ ~HasRegion(html_content, "main") /\ ~HasRegion(html_content, "body")
  /\ \E i \in DOMAIN html_content : IsContainer(html_content[i])
  /\ ~HasCode(html_content)
  /\ Occurs(result, <<Open("pre", <<>>), X, Close("pre")>>) \/ Occurs(result, <<X>>)

\* The decoded text of one line-span.
SpanText(line) == unescape(SelectSeq(line, LAMBDA t : ~IsTag(t)))

\* C2: the fence _convert_code_blocks emits for a code block of N line-spans holds
\* exactly N lines between its markers, the i-th being the text of the i-th
\* line-span.
C2_FenceHasOneLinePerSpan ==
  (pc = "inline_code" /\ html_content # <<>> /\ IsContainer(html_content[1])) =>
    \A lines \in SeqsOf(LineTexts, 1, MaxLines) :
       html_content = CodeBlock("csharp", lines) =>
         LET out == LinesOf(content) IN
         /\ Len(out) = Len(lines) + 4
         /\ out[2] = FENCE \o <<Txt("csharp")>>
         /\ out[Len(out) - 1] = FENCE
         /\ \A k \in DOMAIN lines : out[k + 2] = SpanText(lines[k])

\* The texts between the opening and the closing marker of the fences of s.
Interiors(s) ==
  LET ms == FindIter(Len(s), FenceEnd(s))
  IN {SubSeq(s, ms[k][1] + 3, ms[k][2] - 3) : k \in DOMAIN ms}

\* C3: every text the code block reconstructor placed between two fence markers
\* stands between two fence markers of the final output, token for token.
C3_FenceInteriorUntouched ==
  pc = "done" =>
    \A x \in Interiors(AfterCodeBlocks) :
       \E i \in 1..(Len(result) + 1) :
          OccursAt(result, FENCE \o x \o FENCE, i - 3)

\* The number of pipe-delimited cells of a rendered row.
CellCount(line) == Cardinality({i \in DOMAIN line : line[i] = Txt("|")}) - 1

\* The rendered data rows of the table the content consists of.
DataRows(h) ==
  LET out == LinesOf(strip(content))
  IN IF content = <<>> THEN <<>> ELSE SubSeq(out, IF h = 0 THEN 1 ELSE 3, Len(out))
AfterTable == pc = "images" /\ html_content \in TableDocs
Max(S) == CHOOSE a \in S : \A b \in S : b <= a

\* The number of header cells of a table of TableDocs, and the number of cells of
\* each of its data rows.
HeaderCells(h) == Cardinality({i \in DOMAIN h : h[i] = Open("th", <<>>)})
RowCells(h) ==
  LET trs == SelectSeq([i \in DOMAIN h |-> i],
                       LAMBDA i : h[i] = Open("tr", <<>>) /\ h[i - 1] # Open("thead", <<>>))
      ends == {i \in DOMAIN h : h[i] = Close("tr")}
  IN [k \in DOMAIN trs |->
        Cardinality({i \in trs[k]..First(ends, trs[k]) : h[i] = Open("td", <<>>)})]

\* C4 as stated: for a table of H header cells, every data row _convert_tables
\* emits has exactly H cells.
C4_RowsHaveHeaderWidth ==
  AfterTable =>
    LET H == HeaderCells(html_content)
        out == DataRows(H)
    IN \A k \in DOMAIN out : CellCount(out[k]) = H

\* C4 amended: one row is emitted per data row, in order, and the row of c cells
\* has max(H, c) cells (a row with nothing in it shows as one empty cell): rows
\* shorter than the header are padded to exactly H, no row is narrower than the
\* header, a row with more cells than the header keeps them all.
C4_RowsPaddedNotCut ==
  AfterTable =>
    LET H == HeaderCells(html_content)
        cells == RowCells(html_content)
        out == DataRows(H)
    IN /\ Len(out) = Len(cells)
       /\ \A k \in DOMAIN cells : CellCount(out[k]) = Max({H, cells[k], 1})

C4_Witness ==
  /\ AfterTable
  /\ html_content = Table(2, <<1, 2>>) \/ html_content = Table(2, <<1>>)
  /\ CellCount(DataRows(2)[1]) = 2

\* A link element of h whose href begins with '#' (the header anchors, which the
\* noise remover deletes, aside).
HasAnchorLink(h) ==
  \E i \in DOMAIN h :
     /\ IsOpen(h[i], "a")
     /\ ~HasAttrValue(h[i], "class", <<"header-anchor">>)
     /\ \E a \in DOMAIN h[i].at :
           h[i].at[a].an = <<"href">> /\ h[i].at[a].av # <<>> /\ h[i].at[a].av[1] = "#"

\* C5: a link whose href begins with '#' leaves its text in the output and no
\* [text](#...) syntax.
C5_AnchorLinksArePlainText ==
  (pc = "done" /\ HasAnchorLink(html_content)) =>
    /\ Occurs(result, <<Txt("here")>>)
    /\ ~Occurs(result, <<Txt("]"), Txt("("), Txt("#")>>)

\* C6: when no image of the input has a src attribute the output holds no
\* ![alt](src) construct; an image with a src and no alt is emitted as ![image](src).
C6_NoImageWithoutSrc ==
  pc = "done" =>
    LET imgs == {i \in DOMAIN html_content : IsOpen(html_content[i], "img")}
        named(i, n) == {a \in DOMAIN html_content[i].at : html_content[i].at[a].an = <<n>>}
    IN /\ (imgs # {} /\ \A i \in imgs : named(i, "src") = {})
            => ~Occurs(result, <<Txt("!"), Txt("[")>>)
       /\ \A i \in imgs :
            (named(i, "alt") = {} /\ \E a \in named(i, "src") : html_content[i].at[a].av # <<>>)
            => \E a \in named(i, "src") :
                  Occurs(result, <<Txt("!"), Txt("["), Txt("image"), Txt("]"), Txt("(")>>
                                 \o Pieces(html_content[i].at[a].av) \o <<Txt(")")>>)

\* The words of a filename: the runs of its stem between '_', '-' and spaces.
NameWords(f) ==
  LET name == IF \E i \in 2..(Len(f) - 1) : f[i] = "."
              THEN SubSeq(f, 1, (CHOOSE i \in 2..(Len(f) - 1) :
                                   f[i] = "." /\ \A j \in 2..(Len(f) - 1) : f[j] = "." => j <= i) - 1)
              ELSE f
      g[i \in 0..Len(name)] ==
        IF i = 0 THEN <<<<>>>>
        ELSE LET before == g[i - 1] IN
             IF name[i] \in {"_", "-", " "} THEN Append(before, <<>>)
             ELSE [before EXCEPT ![Len(before)] = Append(@, name[i])]
  IN g[Len(name)]
IsUpperCase(c) == \E i \in DOMAIN UpperChars : UpperChars[i] = c
IsLowerCase(c) == \E i \in DOMAIN LowerChars : LowerChars[i] = c
SameLetters(a, b) ==
  Len(a) = Len(b) /\ \A i \in DOMAIN a : a[i] = b[i] \/ lower_char(a[i]) = lower_char(b[i])
\* The rendering the rule gives one word.
Rendered(w, out) ==
  /\ SameLetters(w, out)
  /\ IF \E a \in ACRONYMS : SameLetters(w, a)
     THEN \A i \in DOMAIN out : ~IsLowerCase(out[i])
     ELSE \A i \in DOMAIN out : IF i = 1 THEN ~IsLowerCase(out[i]) ELSE ~IsUpperCase(out[i])

API_REFERENCE_FONTS_HTML ==
  <<"a", "p", "i", "_", "r", "e", "f", "e", "r", "e", "n", "c", "e", "_", "f", "o", "n", "t", "s">>
  \o DOT_HTML
GETTING_STARTED_HTML ==
  <<"g", "e", "t", "t", "i", "n", "g", "-", "s", "t", "a", "r", "t", "e", "d">> \o DOT_HTML

\* C7: api_reference_fonts.html gives 'API Reference: Fonts' and getting-started.html
\* 'Getting Started'; the title is the words of the name joined by single spaces,
\* a word of {api, pdf, svg, html, css} in upper case, any other word capitalized,
\* with ':' after a leading 'api reference '.
C7_TitleRule ==
  pc = "titled" =>
    LET words == SelectSeq(NameWords(filename), LAMBDA w : w # <<>>)
        all == NameWords(filename)
        prefixed == /\ Len(all) >= 3
                    /\ SameLetters(all[1], WORD_API) /\ SameLetters(all[2], WORD_REFERENCE)
        out == split(result)
    IN /\ filename = API_REFERENCE_FONTS_HTML =>
            result = <<"A", "P", "I", " ", "R", "e", "f", "e", "r", "e", "n", "c", "e", ":", " ",
                       "F", "o", "n", "t", "s">>
       /\ filename = GETTING_STARTED_HTML =>
            result = <<"G", "e", "t", "t", "i", "n", "g", " ", "S", "t", "a", "r", "t", "e", "d">>
       /\ Len(out) = Len(words)
       /\ result = Join(out, <<" ">>)
       /\ \A k \in DOMAIN words :
            IF prefixed /\ k = 2 THEN out[k] = <<"R", "e", "f", "e", "r", "e", "n", "c", "e", ":">>
            ELSE Rendered(words[k], out[k])

C7_Witness ==
  /\ pc = "titled"
  /\ filename = Named(<<<<"A", "p", "I">>, WORD_REFERENCE, <<"P", "D", "F">>>>, <<"-", "_">>, DOT_HTML)
  /\ result = <<"A", "P", "I", " ", "R", "e", "f", "e", "r", "e", "n", "c", "e", ":", " ", "P", "D", "F">>

\* C8: two calls on the same document under two filenames return
\* '# ' + title + two newlines + body with the same body.
C8_FilenameOnlyInTitle ==
  (pc = "done" /\ calls >= 2 /\ html_content = prev.html) =>
    \E body \in {SubSeq(result, Len(title_line(filename)) + 1, Len(result))} :
       /\ result = title_line(filename) \o body
       /\ prev.out = title_line(prev.file) \o body

C8_Witness ==
  /\ pc = "done" /\ calls >= 2 /\ html_content = prev.html
  /\ filename # prev.file
  /\ title_line(filename) # title_line(prev.file)
  /\ \E i \in DOMAIN html_content : IsOpen(html_content[i], "h1")

SETUP_MD ==
  <<Txt("#"), SP, Txt("S"), Txt("e"), Txt("t"), Txt("u"), Txt("p"), NL,
    NL,
    Txt("#"), Txt("#"), SP, Txt("Setup"), NL,
    NL,
    Txt("Install"), SP, Txt("it."), NL,
    NL,
    BT, BT, BT, Txt("csharp"), NL,
    Txt("foo();"), NL,
    Txt("bar();"), NL,
    BT, BT, BT>>

\* C9: the Setup page under setup.html converts to the ten lines of SETUP_MD.
C9_SetupExample ==
  (pc = "done" /\ html_content = SetupDoc /\ filename = SETUP_HTML) => result = SETUP_MD

C9_Witness == pc = "done" /\ html_content = SetupDoc /\ filename = SETUP_HTML /\ calls = 1

NoTags(m) == \A i \in DOMAIN m : ~IsTag(m[i])
NoEntities(m) == \A i \in DOMAIN m : m[i].e = 0
Rerun ==
  /\ pc = "done" /\ calls >= 2 /\ html_content = prev.out /\ filename = prev.file
  /\ NoTags(html_content) /\ NoEntities(html_content)

\* C10 as stated: converting its own tag-free output again returns that output.
C10_RerunLeavesUnchanged == Rerun => result = html_content

\* C10 amended: converting its own output m again (no tags, no entities) returns
\* the title line followed by m after the whitespace cleanup alone: no other
\* stage changes m, and the title heading is there a second time, so that the
\* result is never m.
C10_RerunPrependsTitle ==
  Rerun => /\ result = title_line(filename) \o _cleanup_whitespace(html_content)
           /\ result # html_content

C10_Witness ==
  /\ Rerun
  /\ Occurs(html_content, FENCE \o <<Txt("csharp"), NL, X, NL>> \o FENCE)
  /\ result = title_line(filename) \o html_content

\* C12: a hidden container, copy button or header-anchor link is deleted with
\* everything up to its own closing tag, whatever is nested in it, and the text
\* around it stays; an element that is not one of them stays whole.
C12_HiddenElementsRemovedWhole ==
  (pc = "code_blocks" /\ html_content \in HiddenDocs) =>
    IF html_content[2] \in HIDDEN_TAGS
    THEN content = <<Txt("before"), Txt("after")>>
    ELSE content = html_content

\* C13: whatever calls the instance served before, a call returns what
\* convert_file gives as a function of its two arguments alone; current_file
\* holds the filename of the latest call and takes no part in the result.
C13_CallsAreIndependent ==
  /\ pc = "done" => result = convert_file(html_content, filename)
  /\ calls > 0 => current_file = filename

C13_Witness ==
  /\ pc = "done" /\ calls >= 2
  /\ prev.file # filename /\ prev.out # <<>>
  /\ current_file = filename
  /\ html_content = SetupDoc /\ result = SETUP_MD

\* What holds of the files convert_directory has dealt with so far.
BatchSoFar ==
  LET names == HtmlNames(input_dir)
      dealt == DOMAIN log
  IN /\ Len(log) <= Len(html_files)
     /\ \A k \in dealt :
           /\ log[k].file = html_files[k]
           /\ log[k].status = "created" =>
                /\ log[k].opened = <<md_filename(log[k].file)>>
                /\ \E o \in output_dir : o.name = md_filename(log[k].file)
           /\ (log[k].status = "error" /\ log[k].at \in {"read", "convert"})
                => log[k].opened = <<>>
           /\ Len(log[k].opened) <= 1
     /\ \A o \in output_dir : \E k \in dealt : log[k].opened = <<o.name>>
     /\ pc = "end" =>
           /\ Len(log) = Len(html_files)
           /\ {html_files[k] : k \in DOMAIN html_files} = names
           /\ Len(html_files) = Cardinality(names)

\* C11: convert_directory deals with every .html file of the input directory
\* exactly once, in the order of the list, and always reaches the end of the
\* batch; after a failure in reading, converting or writing it reports the file
\* and goes on; a file reported as created has had exactly one output file
\* opened, <stem>.md, and a file that failed in reading or converting none.
C11_BatchRunsToTheEnd == []BatchSoFar /\ <>(pc = "end")

C11_Witness ==
  /\ pc = "end"
  /\ Len(log) = 2
  /\ log[1].status = "error" /\ log[1].at = "convert"
  /\ log[2].status = "created"
  /\ \E o \in output_dir :
        o.name = md_filename(html_files[2]) /\ o.content = convert_file(html_content, html_files[2])

====
